---- MODULE Spec2Model ----
(***************************************************************************)
(* A model of lib/album.py: the class Album (its class attributes GENRES   *)
(* and album_count, its constructor and its two classmethods) and the      *)
(* module-level statements that follow the class.                          *)
(*                                                                         *)
(* The class statement runs first (Init), then the module-level statements *)
(* run one by one and stop at the first that raises (RunStatement).  From  *)
(* then on the class object is used by callers holding it: sequentially    *)
(* (Spec, SpecNoDirect), or by concurrent callers whose constructions are  *)
(* interleaved at the granularity of the interpreter's instructions        *)
(* (SpecThreads).                                                          *)
(***************************************************************************)
EXTENDS Integers, Sequences, FiniteSets

VARIABLES
    GENRES,        \* Album.GENRES, the class attribute (a list)
    album_count,   \* Album.album_count, the class attribute (an int)
    albums,        \* the instances the callers have constructed, in order;
                   \* each is its attribute dictionary
    pc,            \* index in SCRIPT of the next module-level statement
    exc,           \* the exception that ended the module-level code, or "none"
    last,          \* the call made last: its name, arguments, value, exception
    calls,         \* number of calls made by callers so far
    validated,     \* number of constructions whose genre passed check_genre
    direct,        \* sum of the increments of the direct increase_album_count calls
    tpc,           \* per concurrent caller: its position inside Album(genre, date)
    targs,         \* per concurrent caller: the arguments of its construction
    treg,          \* per concurrent caller: the album_count it has loaded
    tself,         \* per concurrent caller: the instance under construction
    lost           \* increments of other callers overwritten by a stale store

vars == <<GENRES, album_count, albums, pc, exc, last, calls, validated,
          direct, tpc, targs, treg, tself, lost>>

seqVars == <<GENRES, album_count, albums, last, calls, validated, direct>>
threadVars == <<tpc, targs, treg, tself, lost>>

(***************************************************************************)
(* Bounds of the model.                                                    *)
(***************************************************************************)
MaxCalls == 3
NumThreads == 2

(* Inputs the callers draw from.  Genres: the three allowed ones, one of   *)
(* another category, one that differs from an allowed one in case only,    *)
(* and the empty string.  Dates are opaque values.  Increments include     *)
(* zero and negative integers.                                             *)
GenreInputs == {"Hip-Hop", "Pop", "Jazz", "Rock", "pop", ""}
DateInputs == {"1991-09-24", "2016-04-23"}
IncrementInputs == {-2, -1, 0, 1, 5}
ThreadGenreInputs == {"Pop", "Jazz", "Rock"}
ThreadDate == "1991-09-24"
Threads == 1..NumThreads

(***************************************************************************)
(* Python values.                                                          *)
(***************************************************************************)
None == "None"

(* An object's attribute dictionary: a function from attribute names.      *)
EmptyDict == <<>>

SetAttr(self, name, value) ==
    [a \in (DOMAIN self) \cup {name} |-> IF a = name THEN value ELSE self[a]]

HasAttr(self, name) == name \in DOMAIN self

(***************************************************************************)
(* The class body.                                                         *)
(***************************************************************************)
GENRES_order_mutant == <<"Pop", "Hip-Hop", "Jazz">>

(* GENRES = ["Hip-Hop", "Pop", "Jazz"] *)
GENRES_initial == <<"Hip-Hop", "Pop", "Jazz">>

(* album_count = 0 *)
album_count_initial == 0

check_genre_first_two_mutant(G, genre) == \E i \in 1..2 : G[i] = genre

(* check_genre(cls, genre): return genre in cls.GENRES                     *)
(* `in` on a list compares the elements with ==, in order.                 *)
check_genre(G, genre) == \E i \in 1..Len(G) : G[i] = genre

increase_ignores_argument_mutant(count, args) == count + 1

increase_rejects_negative_mutant(count, args) ==
    LET increment == IF Len(args) = 0 THEN 1 ELSE args[1]
    IN  IF increment < 0 THEN count ELSE count + increment

(* increase_album_count(cls, increment=1): cls.album_count += increment    *)
(* args are the positional arguments after cls; the value is the new       *)
(* cls.album_count.  Python integers are unbounded.                        *)
increase_album_count(count, args) ==
    LET increment == IF Len(args) = 0 THEN 1 ELSE args[1]
    IN  count + increment

init_counts_before_check_mutant(self, G, count, genre, date) ==
    IF check_genre(G, genre)
    THEN [self |-> SetAttr(SetAttr(self, "genre", genre), "release_date", date),
          album_count |-> increase_album_count(count, <<>>)]
    ELSE [self |-> self, album_count |-> increase_album_count(count, <<>>)]

init_counts_twice_mutant(self, G, count, genre, date) ==
    IF check_genre(G, genre)
    THEN [self |-> SetAttr(SetAttr(self, "genre", genre), "release_date", date),
          album_count |-> increase_album_count(increase_album_count(count, <<>>), <<>>)]
    ELSE [self |-> self, album_count |-> count]

init_stores_genre_as_date_mutant(self, G, count, genre, date) ==
    IF check_genre(G, genre)
    THEN [self |-> SetAttr(SetAttr(self, "genre", genre), "release_date", genre),
          album_count |-> increase_album_count(count, <<>>)]
    ELSE [self |-> self, album_count |-> count]

init_stores_unchecked_mutant(self, G, count, genre, date) ==
    [self |-> SetAttr(SetAttr(self, "genre", genre), "release_date", date),
     album_count |-> IF check_genre(G, genre)
                     THEN increase_album_count(count, <<>>)
                     ELSE count]

store_atomic_mutant(loaded, current, args) == increase_album_count(current, args)

(* cls.album_count += increment, as the interpreter runs it: the attribute *)
(* is loaded, the increment is added to the loaded value, and the sum is   *)
(* stored.  The value stored does not depend on what the attribute holds   *)
(* (current) at the time of the store.                                     *)
store_album_count(loaded, current, args) == increase_album_count(loaded, args)

(* __init__(self, genre, date): the instance's attributes and the class's  *)
(* album_count after the body has run.                                     *)
__init__(self, G, count, genre, date) ==
    IF check_genre(G, genre)
    THEN [self |-> SetAttr(SetAttr(self, "genre", genre), "release_date", date),
          album_count |-> increase_album_count(count, <<>>)]
    ELSE [self |-> self, album_count |-> count]

(* The call Album(args...): a new object, then __init__ on it.  The        *)
(* parameters genre and date have no defaults, so binding any other number *)
(* of positional arguments raises TypeError before the body runs.          *)
Album(G, count, args) ==
    IF Len(args) # 2
    THEN [exc |-> "TypeError", self |-> EmptyDict, album_count |-> count]
    ELSE LET r == __init__(EmptyDict, G, count, args[1], args[2])
         IN  [exc |-> "none", self |-> r.self, album_count |-> r.album_count]

(***************************************************************************)
(* The module-level statements after the class.                            *)
(***************************************************************************)
SCRIPT ==
    << [kind |-> "call", args |-> <<>>, name |-> "Album"],
       [kind |-> "call", args |-> <<>>, name |-> "Album"],
       [kind |-> "call", args |-> <<>>, name |-> "Album"],
       [kind |-> "attr", args |-> <<>>, name |-> "GENRES"],
       [kind |-> "attr", args |-> <<>>, name |-> "album_count"] >>

ScriptEnded == exc # "none" \/ pc > Len(SCRIPT)

Init ==
    /\ GENRES = GENRES_initial
    /\ album_count = album_count_initial
    /\ albums = <<>>
    /\ pc = 1
    /\ exc = "none"
    /\ last = [op |-> "none", args |-> <<>>, result |-> None, exc |-> "none"]
    /\ calls = 0
    /\ validated = 0
    /\ direct = 0
    /\ tpc = [t \in Threads |-> "idle"]
    /\ targs = [t \in Threads |-> <<>>]
    /\ treg = [t \in Threads |-> 0]
    /\ tself = [t \in Threads |-> EmptyDict]
    /\ lost = 0

(* One module-level statement.  An expression statement discards its       *)
(* value; one that raises ends the module's execution.                     *)
RunStatement ==
    /\ ~ScriptEnded
    /\ LET s == SCRIPT[pc]
           r == Album(GENRES, album_count, s.args)
       IN  IF s.kind = "call"
           THEN IF r.exc # "none"
                THEN /\ exc' = r.exc
                     /\ UNCHANGED <<pc, album_count, validated>>
                ELSE /\ pc' = pc + 1
                     /\ album_count' = r.album_count
                     /\ validated' = validated + (IF check_genre(GENRES, s.args[1]) THEN 1 ELSE 0)
                     /\ UNCHANGED exc
           ELSE /\ pc' = pc + 1
                /\ UNCHANGED <<exc, album_count, validated>>
    /\ UNCHANGED <<GENRES, albums, last, calls, direct>>
    /\ UNCHANGED threadVars

(***************************************************************************)
(* Sequential callers.                                                     *)
(***************************************************************************)
(* Album(genre, date) *)
Construct ==
    /\ ScriptEnded
    /\ calls < MaxCalls
    /\ \E genre \in GenreInputs, date \in DateInputs :
         LET r == Album(GENRES, album_count, <<genre, date>>)
         IN  /\ album_count' = r.album_count
             /\ albums' = Append(albums, r.self)
             /\ validated' = validated + (IF check_genre(GENRES, genre) THEN 1 ELSE 0)
             /\ last' = [op |-> "Album", args |-> <<genre, date>>,
                         result |-> None, exc |-> r.exc]
    /\ calls' = calls + 1
    /\ UNCHANGED <<GENRES, pc, exc, direct>>
    /\ UNCHANGED threadVars

(* Album.check_genre(genre) *)
CallCheckGenre ==
    /\ ScriptEnded
    /\ calls < MaxCalls
    /\ \E genre \in GenreInputs :
         last' = [op |-> "check_genre", args |-> <<genre>>,
                  result |-> check_genre(GENRES, genre), exc |-> "none"]
    /\ calls' = calls + 1
    /\ UNCHANGED <<GENRES, album_count, albums, pc, exc, validated, direct>>
    /\ UNCHANGED threadVars

(* Album.increase_album_count() and Album.increase_album_count(k) *)
CallIncreaseAlbumCount ==
    /\ ScriptEnded
    /\ calls < MaxCalls
    /\ \E args \in {<<>>} \cup {<<k>> : k \in IncrementInputs} :
         /\ album_count' = increase_album_count(album_count, args)
         /\ direct' = direct + (IF Len(args) = 0 THEN 1 ELSE args[1])
         /\ last' = [op |-> "increase_album_count", args |-> args,
                     result |-> None, exc |-> "none"]
    /\ calls' = calls + 1
    /\ UNCHANGED <<GENRES, albums, pc, exc, validated>>
    /\ UNCHANGED threadVars

Next == RunStatement \/ Construct \/ CallCheckGenre \/ CallIncreaseAlbumCount

Spec == Init /\ [][Next]_vars

(* Callers that construct albums and query genres, and never call          *)
(* increase_album_count themselves.                                        *)
NextNoDirect == RunStatement \/ Construct \/ CallCheckGenre

SpecNoDirect == Init /\ [][NextNoDirect]_vars

(***************************************************************************)
(* Concurrent callers.  Each constructs one album; the interpreter may     *)
(* switch callers between any two instructions, and nothing in the class   *)
(* takes a lock.                                                           *)
(***************************************************************************)
(* Album(genre, date) is called: the object exists, __init__ is entered.   *)
ThreadCall(t) ==
    /\ ScriptEnded
    /\ tpc[t] = "idle"
    /\ \E genre \in ThreadGenreInputs :
         targs' = [targs EXCEPT ![t] = <<genre, ThreadDate>>]
    /\ tself' = [tself EXCEPT ![t] = EmptyDict]
    /\ tpc' = [tpc EXCEPT ![t] = "check"]
    /\ UNCHANGED <<treg, lost, pc, exc>>
    /\ UNCHANGED seqVars

(* if self.check_genre(genre): *)
ThreadCheck(t) ==
    /\ tpc[t] = "check"
    /\ IF check_genre(GENRES, targs[t][1])
       THEN /\ tpc' = [tpc EXCEPT ![t] = "load"]
            /\ validated' = validated + 1
       ELSE /\ tpc' = [tpc EXCEPT ![t] = "done"]
            /\ UNCHANGED validated
    /\ UNCHANGED <<GENRES, album_count, albums, last, calls, direct>>
    /\ UNCHANGED <<targs, treg, tself, lost, pc, exc>>

(* self.increase_album_count(): cls.album_count is loaded *)
ThreadLoad(t) ==
    /\ tpc[t] = "load"
    /\ treg' = [treg EXCEPT ![t] = album_count]
    /\ tpc' = [tpc EXCEPT ![t] = "store"]
    /\ UNCHANGED <<targs, tself, lost, pc, exc>>
    /\ UNCHANGED seqVars

(* ... and the sum is stored into cls.album_count *)
ThreadStore(t) ==
    /\ tpc[t] = "store"
    /\ album_count' = store_album_count(treg[t], album_count, <<>>)
    /\ lost' = lost + (album_count - treg[t])
    /\ tpc' = [tpc EXCEPT ![t] = "set_genre"]
    /\ UNCHANGED <<GENRES, albums, last, calls, validated, direct>>
    /\ UNCHANGED <<targs, treg, tself, pc, exc>>

(* self.genre = genre *)
ThreadSetGenre(t) ==
    /\ tpc[t] = "set_genre"
    /\ tself' = [tself EXCEPT ![t] = SetAttr(@, "genre", targs[t][1])]
    /\ tpc' = [tpc EXCEPT ![t] = "set_date"]
    /\ UNCHANGED <<targs, treg, lost, pc, exc>>
    /\ UNCHANGED seqVars

(* self.release_date = date *)
ThreadSetDate(t) ==
    /\ tpc[t] = "set_date"
    /\ tself' = [tself EXCEPT ![t] = SetAttr(@, "release_date", targs[t][2])]
    /\ tpc' = [tpc EXCEPT ![t] = "done"]
    /\ UNCHANGED <<targs, treg, lost, pc, exc>>
    /\ UNCHANGED seqVars

NextThreads ==
    \/ RunStatement
    \/ \E t \in Threads : ThreadCall(t)
    \/ \E t \in Threads : ThreadCheck(t)
    \/ \E t \in Threads : ThreadLoad(t)
    \/ \E t \in Threads : ThreadStore(t)
    \/ \E t \in Threads : ThreadSetGenre(t)
    \/ \E t \in Threads : ThreadSetDate(t)

SpecThreads == Init /\ [][NextThreads]_vars

(***************************************************************************)
(* Properties.                                                             *)
(***************************************************************************)
(* The allowed genre set, as the specification states it. *)
AllowedGenres == {"Hip-Hop", "Pop", "Jazz"}

(* The instance the last construction returned. *)
NewAlbum == albums[Len(albums)]

LastIs(op) == last.op = op

AllDone == \A t \in Threads : tpc[t] = "done"

(* C1: with no direct call of increase_album_count, album_count equals the *)
(* number of constructions so far whose genre passed validation; it starts *)
(* at 0 and is 3 after three constructions with valid genres.              *)
C1_CountEqualsValidatedConstructions == album_count = validated

C1_ThreeValidConstructions ==
    /\ Len(albums) = 3
    /\ \A i \in 1..3 : HasAttr(albums[i], "genre")
    /\ validated = 3
    /\ album_count = 3

(* C2: a construction with a genre of the allowed set and any date raises  *)
(* nothing and returns an instance whose genre is the given genre and      *)
(* whose release_date is the given date.                                   *)
C2_ValidConstructionStoresArguments ==
    (LastIs("Album") /\ last.args[1] \in AllowedGenres)
        => /\ last.exc = "none"
           /\ NewAlbum = [genre |-> last.args[1], release_date |-> last.args[2]]

C2_JazzAlbumConstructed ==
    /\ LastIs("Album")
    /\ last.args[1] = "Jazz"
    /\ last.args[2] = "2016-04-23"
    /\ NewAlbum.genre = "Jazz"
    /\ NewAlbum.release_date = "2016-04-23"

(* C3: a construction with a genre outside the allowed set raises nothing  *)
(* and returns an instance with neither genre nor release_date set.        *)
C3_InvalidConstructionSetsNothing ==
    (LastIs("Album") /\ last.args[1] \notin AllowedGenres)
        => /\ last.exc = "none"
           /\ ~HasAttr(NewAlbum, "genre")
           /\ ~HasAttr(NewAlbum, "release_date")

C3_LowercasePopConstructed ==
    /\ LastIs("Album")
    /\ last.args[1] = "pop"
    /\ DOMAIN NewAlbum = {}

(* C4: a construction with a genre outside the allowed set leaves          *)
(* album_count as it was, whatever its value.                              *)
C4_InvalidConstructionKeepsCount ==
    [][(calls' = calls + 1 /\ last'.op = "Album" /\ last'.args[1] \notin AllowedGenres)
          => album_count' = album_count]_vars

C4_RockConstructedAtNonzeroCount ==
    /\ LastIs("Album")
    /\ last.args[1] = "Rock"
    /\ album_count > 1

(* C5: a direct call increase_album_count(k) sets album_count to its       *)
(* previous value plus k (plus 1 with no argument) and changes no instance *)
(* and not the allowed-genre sequence.                                     *)
C5_DirectIncreaseAddsExactlyK ==
    [][(calls' = calls + 1 /\ last'.op = "increase_album_count")
          => /\ album_count' = album_count + (IF Len(last'.args) = 0 THEN 1 ELSE last'.args[1])
             /\ albums' = albums
             /\ GENRES' = GENRES]_vars

C5_IncreasedByFiveWithoutConstruction ==
    /\ LastIs("increase_album_count")
    /\ Len(last.args) = 1
    /\ last.args[1] = 5
    /\ albums = <<>>
    /\ album_count = 5

(* C6: once the module-level statements have run, and before any other     *)
(* call, album_count is 3.                                                 *)
C6_ScriptLeavesCountThree == (ScriptEnded /\ calls = 0) => album_count = 3

(* C7: check_genre(genre) returns true exactly when genre is in the        *)
(* allowed set, and a call of it changes neither album_count nor the       *)
(* allowed-genre sequence nor any instance.                                *)
C7_CheckGenreIsMembershipAndPure ==
    [][(calls' = calls + 1 /\ last'.op = "check_genre")
          => /\ last'.result = (last'.args[1] \in AllowedGenres)
             /\ album_count' = album_count
             /\ albums' = albums
             /\ GENRES' = GENRES]_vars

C7_JazzCheckedAfterConstruction ==
    /\ LastIs("check_genre")
    /\ last.args[1] = "Jazz"
    /\ last.result = TRUE
    /\ Len(albums) > 0
    /\ album_count > 0

(* C8: the allowed-genre sequence is "Hip-Hop", "Pop", "Jazz" in that      *)
(* order, initially and after any constructions, check_genre calls and     *)
(* increase_album_count calls.                                             *)
C8_GenresSequenceFixed == GENRES = <<"Hip-Hop", "Pop", "Jazz">>

C8_AfterEveryKindOfCall ==
    /\ calls = 3
    /\ Len(albums) = 1
    /\ direct # 0
    /\ LastIs("check_genre")
    /\ GENRES = <<"Hip-Hop", "Pop", "Jazz">>

(* C9: the increment stores the loaded value plus one whatever was stored  *)
(* in between, so when interleaved constructions have all returned,        *)
(* album_count is the number of validated constructions less the           *)
(* increments overwritten; a final state with album_count below the number *)
(* of validated constructions is reachable.                                *)
C9_FinalCountIsValidatedLessLost == AllDone => album_count = validated - lost

C9_LostUpdate ==
    /\ AllDone
    /\ validated >= 2
    /\ album_count < validated

(* C10: increase_album_count checks neither bound nor sign: every          *)
(* increment, zero and negative ones included, is added as it is, so       *)
(* album_count is the number of validated constructions plus the sum of    *)
(* the direct increments; a negative album_count that differs from the     *)
(* number of validated constructions is reachable.                         *)
C10_EveryIncrementIsAdded == album_count = validated + direct

C10_NegativeCount ==
    /\ LastIs("increase_album_count")
    /\ Len(last.args) = 1
    /\ last.args[1] < 0
    /\ album_count < 0
    /\ album_count # validated

====
